---- MODULE Spec2Model ----
(***************************************************************************)
(* Store for monitoring and analysis of road pavement (src/main.py).       *)
(*                                                                         *)
(* A FastAPI application: CRUD endpoints over the table                    *)
(* processed_agent_data (PostgreSQL through SQLAlchemy), a websocket       *)
(* endpoint /ws/{user_id} and send_data_to_subscribers, which the create   *)
(* endpoint calls after its commit.                                        *)
(*                                                                         *)
(* The module-level registry is  subscriptions: Set[WebSocket] = set()     *)
(* (line 82): the object is a Python set.  The handlers use it as a dict   *)
(* of sets (subscriptions[user_id] = set(), subscriptions[user_id].add).   *)
(* Python does not enforce the annotation; the operations on the set       *)
(* object are modelled as Python executes them: membership is defined,     *)
(* item assignment and subscription raise TypeError.                       *)
(*                                                                         *)
(* Datastore: SessionLocal(autocommit=False): every handler runs its       *)
(* statements in one transaction; a statement's effect is visible to other *)
(* sessions at commit (PostgreSQL READ COMMITTED); the single UPDATE or     *)
(* DELETE of a handler and its commit are one step.  The id column is an    *)
(* Integer primary key: PostgreSQL draws it from a sequence at the INSERT, *)
(* and a sequence value is never handed out twice.                         *)
(***************************************************************************)
EXTENDS Integers, Sequences, FiniteSets, TLC

\* ------------------------------------------------------------------ bounds
MaxReqs == 2      \* HTTP requests in one run
MaxConns == 1     \* websocket connections in one run
MaxId == 2        \* largest primary key a request addresses / the sequence yields
MaxRows == 1      \* rows the table holds when the application starts

Reqs == 1..MaxReqs
Conns == 1..MaxConns
Ids == 1..MaxId
UserIds == {7, 8}

None == "None"

\* ------------------------------------------------------- timestamps (46-61)
\* datetime values, written <<year, month, day, hour, minute, second>>
D1 == <<2024, 1, 1, 0, 0, 0>>
D2 == <<2024, 1, 2, 12, 30, 0>>

\* the outcome of a fromisoformat that raised ValueError (no datetime)
ValueError == <<>>

\* datetime.fromisoformat(value): the parsed datetime, or ValueError
fromisoformat(value) ==
    CASE value = "2024-01-01T00:00:00" -> D1
      [] value = "2024-01-01 00:00:00" -> D1
      [] value = "2024-01-02T12:30:00" -> D2
      [] OTHER -> ValueError

\* datetime.isoformat(): always with the 'T' separator
isoformat(d) ==
    CASE d = D1 -> "2024-01-01T00:00:00"
      [] d = D2 -> "2024-01-02T12:30:00"

\* ------------------------------------------------- request bodies (35-66)
\* The JSON bodies of POST and PUT, flattened: ProcessedAgentData =
\* {road_state, agent_data: {user_id, accelerometer{x,y,z}, gps{latitude,
\* longitude}, timestamp}}.
Body(rs, u, x, y, z, lat, lon, ts) ==
    [road_state |-> rs, user_id |-> u, x |-> x, y |-> y, z |-> z,
     latitude |-> lat, longitude |-> lon, timestamp |-> ts]

Submissions ==
    { Body("pothole", 7, 1, 2, 3, 50, 30, "2024-01-01 00:00:00"),
      Body("normal", 8, 4, 5, 6, 51, 31, "2024-01-02T12:30:00"),
      Body("pothole", 7, 1, 2, 3, 50, 30, "not-a-date") }

\* AgentData.check_timestamp / pydantic's datetime field: the body is
\* accepted when its timestamp parses.  FastAPI validates the body before it
\* calls the handler and answers 422 itself when validation fails.  (Whether
\* check_timestamp is registered under the decorator order of lines 52-53 or
\* pydantic's own datetime parser decides, the bodies of Submissions are
\* accepted and rejected alike.)
validate(b) ==
    IF fromisoformat(b.timestamp) = ValueError
    THEN [error |-> TRUE, value |-> b]
    ELSE [error |-> FALSE, value |-> [b EXCEPT !.timestamp = fromisoformat(b.timestamp)]]

\* Row with the gps columns filled from each other's value
Row_swapped(id, d) ==
    [id |-> id, road_state |-> d.road_state, user_id |-> d.user_id,
     x |-> d.x, y |-> d.y, z |-> d.z,
     latitude |-> d.longitude, longitude |-> d.latitude, timestamp |-> d.timestamp]

\* the row of processed_agent_data (19-31) that holds validated data d under id
Row(id, d) ==
    [id |-> id, road_state |-> d.road_state, user_id |-> d.user_id,
     x |-> d.x, y |-> d.y, z |-> d.z,
     latitude |-> d.latitude, longitude |-> d.longitude, timestamp |-> d.timestamp]

\* data_to_send of create_processed_agent_data (169-184)
data_to_send(d) ==
    [road_state |-> d.road_state,
     agent_data |->
        [user_id |-> d.user_id,
         accelerometer |-> [x |-> d.x, y |-> d.y, z |-> d.z],
         gps |-> [latitude |-> d.latitude, longitude |-> d.longitude],
         timestamp |-> isoformat(d.timestamp)]]

\* ------------------------------------------- the registry object (82)
\* user_id in subscriptions: set.__contains__
Contains(s, k) == k \in s

\* subscriptions[user_id] = set(): a set has no __setitem__, Python raises
\* TypeError ('set' object does not support item assignment); s is unchanged
SetItem(s, k, v) == [exc |-> "TypeError", obj |-> s]

\* subscriptions[user_id]: a set has no __getitem__, Python raises TypeError
\* ('set' object is not subscriptable)
GetItem(s, k) == [exc |-> "TypeError", value |-> {}]

\* subscribe that adds the websocket to the set before the raising statement
subscribe_adds(s, u, c) ==
    IF ~Contains(s, u)
    THEN SetItem(s \cup {c}, u, {})
    ELSE [exc |-> GetItem(s, u).exc, obj |-> s \cup {c}]

\* Lines 89-91 of websocket_endpoint for connection c of user_id u: the
\* exception that leaves them (None when they complete) and the registry
\* after them.  Line 91 is reached only when line 90 did not raise.
subscribe(s, u, c) ==
    IF ~Contains(s, u)
    THEN SetItem(s, u, {})
    ELSE [exc |-> GetItem(s, u).exc, obj |-> s]

\* send_data_to_subscribers with the test of line 102 inverted
send_data_to_subscribers_inverted(s, user_id, data) ==
    IF ~Contains(s, user_id)
    THEN [exc |-> GetItem(s, user_id).exc, sends |-> <<>>]
    ELSE [exc |-> None, sends |-> <<>>]

\* send_data_to_subscribers (101-104): the exception that leaves it (None
\* when it returns) and the (websocket, message) writes it performed, in
\* order.  Line 103 subscripts the registry, which raises on a set.
send_data_to_subscribers(s, user_id, data) ==
    IF Contains(s, user_id)
    THEN [exc |-> GetItem(s, user_id).exc, sends |-> <<>>]
    ELSE [exc |-> None, sends |-> <<>>]

\* ---------------------------------------------------- responses (FastAPI)
\* raise HTTPException(status_code=404, detail="Data not found")
NotFound404 == [status |-> 404, detail |-> "Data not found"]

\* str(e) of a starlette HTTPException: "<status_code>: <detail>"
str(e) ==
    IF e.status = 404 /\ e.detail = "Data not found"
    THEN "404: Data not found"
    ELSE e.detail

\* except Exception as e: raise HTTPException(status_code=500, detail=str(e))
\* (126-127, 142-143, 187-188, 235-236, 258-259).  HTTPException derives
\* from Exception, so the handler's own 404 is caught here as well.
except_Exception(e) == [status |-> 500, detail |-> str(e)]

\* an exception raised by the database driver (db.execute, db.commit)
StorageError == [status |-> 0, detail |-> "StorageError"]

\* an exception raised by the registry object
RegistryError(exc) == [status |-> 0, detail |-> exc]

\* ---------------------------------------------------------------- state
VARIABLES
    table,          \* committed rows of processed_agent_data
    nextId,         \* next value of the id sequence
    subscriptions,  \* the module-level registry object (a Python set)
    ws,             \* per websocket connection: handler position, user_id
    received,       \* per websocket connection: messages written to it
    req,            \* per HTTP request: handler position, locals, response
    modified        \* ids some committed UPDATE or DELETE has addressed

vars == <<table, nextId, subscriptions, ws, received, req, modified>>

\* A request slot before its request arrives.  kind: the endpoint; pc: the
\* handler's position; data: the validated body; id: the path parameter; txn:
\* the row its open transaction will write; existing: the row its select
\* returned; status, detail, result: the response.  Bookkeeping for the
\* properties: hasRow/row: the row its INSERT committed; published: line 185
\* was reached; sends: the <<websocket, message>> writes of line 104;
\* expected: the connections whose handler had run its subscribe step
\* (lines 89-91) for <its user_id> when line 185 was reached.
IdleReq ==
    [kind |-> None, pc |-> "idle", data |-> Body(None, 0, 0, 0, 0, 0, 0, ValueError),
     id |-> 0, txn |-> Row(0, Body(None, 0, 0, 0, 0, 0, 0, ValueError)),
     existing |-> Row(0, Body(None, 0, 0, 0, 0, 0, 0, ValueError)),
     status |-> 0, detail |-> None,
     result |-> Row(0, Body(None, 0, 0, 0, 0, 0, 0, ValueError)),
     hasRow |-> FALSE, row |-> Row(0, Body(None, 0, 0, 0, 0, 0, 0, ValueError)),
     published |-> FALSE, sends |-> <<>>, expected |-> {}]

\* A websocket connection before its client connects.  pc: the handler's
\* position; exc: the exception that ended the handler.
IdleWs == [pc |-> "idle", user_id |-> 0, exc |-> None]

\* The rows earlier runs of the application have left in the database: the
\* table persists across restarts, and the sequence is past every stored id.
\* Each row holds a validated body.
ValidBodies == {b \in Submissions : ~validate(b).error}

StoredBefore(n) ==
    {Row(i, validate(CHOOSE b \in ValidBodies : b.user_id = 7 + ((i + 1) % 2)).value) : i \in 1..n}

Init ==
    /\ \E n \in 0..MaxRows :
          /\ n <= MaxId
          /\ table = StoredBefore(n)
          /\ nextId = n + 1
    /\ subscriptions = {}
    /\ ws = [c \in Conns |-> IdleWs]
    /\ received = [c \in Conns |-> <<>>]
    /\ req = [r \in Reqs |-> IdleReq]
    /\ modified = {}

\* Requests are numbered in their order of arrival, connections in their
\* order of opening: slot r is taken when every lower slot has been
Arrives(r) == req[r].pc = "idle" /\ \A q \in Reqs : q < r => req[q].pc # "idle"
Opens(c) == ws[c].pc = "idle" /\ \A k \in Conns : k < c => ws[k].pc # "idle"

\* the response  resp  ends request r
Respond(r, resp) ==
    [req[r] EXCEPT !.pc = "done", !.status = resp.status, !.detail = resp.detail]

\* rows of t with primary key id (select ... where id == ...)
select(t, id) == {x \in t : x.id = id}

\* ------------------------------------------------ websocket_endpoint (86-96)
\* The handler of a connection to /ws/<u>, from line 88 to its end: accept
\* (which touches no shared state), then lines 89-91.  An exception there is
\* not a WebSocketDisconnect, so line 95 does not catch it: it ends the
\* handler (the server then closes the connection).  Lines 92-96 run only
\* when 89-91 raise nothing.
websocket_endpoint(c, u) ==
    /\ Opens(c)
    /\ LET out == subscribe(subscriptions, u, c)
       IN /\ subscriptions' = out.obj
          /\ ws' = [ws EXCEPT ![c] =
                      [pc |-> IF out.exc = None THEN "receiving" ELSE "terminated",
                       user_id |-> u, exc |-> out.exc]]
    /\ UNCHANGED <<table, nextId, received, req, modified>>

\* The connections opened on /ws/<u> (their handler has run lines 89-91).
\* No client closes its connection here: the handler would observe that
\* only at line 94.
Subscribers(u) == {c \in Conns : ws[c].pc # "idle" /\ ws[c].user_id = u}

\* --------------------------------- create_processed_agent_data (149-188)
\* POST /processed_agent_data/ with body b: FastAPI validates b against
\* ProcessedAgentData and calls the handler only with a valid body
create_receive(r, b) ==
    /\ Arrives(r)
    /\ LET v == validate(b)
       IN req' = [req EXCEPT ![r] =
                    IF v.error
                    THEN [IdleReq EXCEPT !.kind = "create", !.pc = "done",
                                         !.status = 422, !.detail = "ValidationError"]
                    ELSE [IdleReq EXCEPT !.kind = "create", !.pc = "validated",
                                         !.data = v.value]]
    /\ UNCHANGED <<table, nextId, subscriptions, ws, received, modified>>

\* lines 156-167: db.execute(insert); the sequence yields the row's id
create_insert(r, ok) ==
    /\ req[r].kind = "create" /\ req[r].pc = "validated"
    /\ nextId <= MaxId
    /\ IF ok
       THEN /\ req' = [req EXCEPT ![r].pc = "inserted", ![r].txn = Row(nextId, req[r].data)]
            /\ nextId' = nextId + 1
       ELSE /\ req' = [req EXCEPT ![r] = Respond(r, except_Exception(StorageError))]
            /\ UNCHANGED nextId
    /\ UNCHANGED <<table, subscriptions, ws, received, modified>>

\* create_commit whose failed commit has stored the row all the same
create_commit_keeps_row(r, ok) ==
    /\ req[r].kind = "create" /\ req[r].pc = "inserted"
    /\ table' = table \cup {req[r].txn}
    /\ IF ok
       THEN req' = [req EXCEPT ![r].pc = "committed", ![r].hasRow = TRUE,
                               ![r].row = req[r].txn]
       ELSE req' = [req EXCEPT ![r] = Respond(r, except_Exception(StorageError))]
    /\ UNCHANGED <<nextId, subscriptions, ws, received, modified>>

\* create_commit that goes on to line 169 after a failed commit
create_commit_swallows(r, ok) ==
    /\ req[r].kind = "create" /\ req[r].pc = "inserted"
    /\ IF ok
       THEN /\ table' = table \cup {req[r].txn}
            /\ req' = [req EXCEPT ![r].pc = "committed", ![r].hasRow = TRUE,
                                  ![r].row = req[r].txn]
       ELSE /\ req' = [req EXCEPT ![r].pc = "committed"]
            /\ UNCHANGED table
    /\ UNCHANGED <<nextId, subscriptions, ws, received, modified>>

\* line 168: db.commit()
create_commit(r, ok) ==
    /\ req[r].kind = "create" /\ req[r].pc = "inserted"
    /\ IF ok
       THEN /\ table' = table \cup {req[r].txn}
            /\ req' = [req EXCEPT ![r].pc = "committed", ![r].hasRow = TRUE,
                                  ![r].row = req[r].txn]
       ELSE /\ req' = [req EXCEPT ![r] = Respond(r, except_Exception(StorageError))]
            /\ UNCHANGED table
    /\ UNCHANGED <<nextId, subscriptions, ws, received, modified>>

\* received after the writes of  sends  (a sequence of <<websocket, message>>)
RECURSIVE Deliver(_, _)
Deliver(rcv, sends) ==
    IF sends = <<>> THEN rcv
    ELSE Deliver([rcv EXCEPT ![Head(sends)[1]] = Append(@, Head(sends)[2])], Tail(sends))

\* create_publish that awaits a write to every connection opened for the
\* record's user_id: with such a connection it never gets past line 185
create_publish_awaits(r) ==
    /\ req[r].kind = "create" /\ req[r].pc = "committed"
    /\ Subscribers(req[r].data.user_id) = {}
    /\ LET d == req[r].data
           out == send_data_to_subscribers(subscriptions, d.user_id, data_to_send(d))
           resp == IF out.exc = None
                   THEN [status |-> 200, detail |-> "Data inserted successfully"]
                   ELSE except_Exception(RegistryError(out.exc))
       IN /\ received' = Deliver(received, out.sends)
          /\ req' = [req EXCEPT ![r] =
                       [Respond(r, resp) EXCEPT
                           !.published = TRUE,
                           !.sends = out.sends,
                           !.expected = Subscribers(d.user_id)]]
    /\ UNCHANGED <<table, nextId, subscriptions, ws, modified>>

\* lines 169-188: build data_to_send, await send_data_to_subscribers, answer
create_publish(r) ==
    /\ req[r].kind = "create" /\ req[r].pc = "committed"
    /\ LET d == req[r].data
           out == send_data_to_subscribers(subscriptions, d.user_id, data_to_send(d))
           resp == IF out.exc = None
                   THEN [status |-> 200, detail |-> "Data inserted successfully"]
                   ELSE except_Exception(RegistryError(out.exc))
       IN /\ received' = Deliver(received, out.sends)
          /\ req' = [req EXCEPT ![r] =
                       [Respond(r, resp) EXCEPT
                           !.published = TRUE,
                           !.sends = out.sends,
                           !.expected = Subscribers(d.user_id)]]
    /\ UNCHANGED <<table, nextId, subscriptions, ws, modified>>

\* ----------------------------------- read_processed_agent_data (132-143)
\* GET /processed_agent_data/<id>: select, first(), 404 when None; the 404 is
\* raised inside the try block
read_processed_agent_data(r, id, ok) ==
    /\ Arrives(r)
    /\ LET found == select(table, id)
           start == [IdleReq EXCEPT !.kind = "read", !.id = id, !.pc = "done"]
       IN req' = [req EXCEPT ![r] =
            IF ~ok
            THEN [start EXCEPT !.status = except_Exception(StorageError).status,
                               !.detail = except_Exception(StorageError).detail]
            ELSE IF found = {}
            THEN [start EXCEPT !.status = except_Exception(NotFound404).status,
                               !.detail = except_Exception(NotFound404).detail]
            ELSE [start EXCEPT !.status = 200, !.result = CHOOSE x \in found : TRUE]]
    /\ UNCHANGED <<table, nextId, subscriptions, ws, received, modified>>

\* update_select that stores the submitted row when the id has none (an
\* upsert) before it answers
update_select_upserts(r, id, b, ok) ==
    /\ Arrives(r)
    /\ LET v == validate(b)
           found == select(table, id)
           start == [IdleReq EXCEPT !.kind = "update", !.id = id, !.pc = "done"]
       IN /\ req' = [req EXCEPT ![r] =
                IF v.error
                THEN [start EXCEPT !.status = 422, !.detail = "ValidationError"]
                ELSE IF ~ok
                THEN [start EXCEPT !.status = except_Exception(StorageError).status,
                                   !.detail = except_Exception(StorageError).detail]
                ELSE IF found = {}
                THEN [start EXCEPT !.status = except_Exception(NotFound404).status,
                                   !.detail = except_Exception(NotFound404).detail]
                ELSE [start EXCEPT !.pc = "selected", !.data = v.value,
                                   !.existing = CHOOSE x \in found : TRUE]]
          /\ table' = IF ~v.error /\ ok /\ found = {}
                      THEN table \cup {Row(id, v.value)}
                      ELSE table
    /\ UNCHANGED <<nextId, subscriptions, ws, received, modified>>

\* --------------------------------- update_processed_agent_data (193-236)
\* PUT /processed_agent_data/<id> with body b: FastAPI validates b, then
\* lines 197-202: select, first(), 404 when None
update_select(r, id, b, ok) ==
    /\ Arrives(r)
    /\ LET v == validate(b)
           found == select(table, id)
           start == [IdleReq EXCEPT !.kind = "update", !.id = id, !.pc = "done"]
       IN req' = [req EXCEPT ![r] =
            IF v.error
            THEN [start EXCEPT !.status = 422, !.detail = "ValidationError"]
            ELSE IF ~ok
            THEN [start EXCEPT !.status = except_Exception(StorageError).status,
                               !.detail = except_Exception(StorageError).detail]
            ELSE IF found = {}
            THEN [start EXCEPT !.status = except_Exception(NotFound404).status,
                               !.detail = except_Exception(NotFound404).detail]
            ELSE [start EXCEPT !.pc = "selected", !.data = v.value,
                               !.existing = CHOOSE x \in found : TRUE]]
    /\ UNCHANGED <<table, nextId, subscriptions, ws, received, modified>>

\* update_commit whose UPDATE leaves the timestamp column out of its values
update_commit_partial(r, ok) ==
    /\ req[r].kind = "update" /\ req[r].pc = "selected"
    /\ IF ok
       THEN /\ table' = {IF x.id = req[r].id
                         THEN [Row(req[r].id, req[r].data) EXCEPT !.timestamp = x.timestamp]
                         ELSE x : x \in table}
            /\ modified' = modified \cup {req[r].id}
            /\ req' = [req EXCEPT ![r].pc = "done", ![r].status = 200,
                                  ![r].txn = Row(req[r].id, req[r].data),
                                  ![r].result = Row(req[r].id, req[r].data)]
       ELSE /\ req' = [req EXCEPT ![r] = Respond(r, except_Exception(StorageError))]
            /\ UNCHANGED <<table, modified>>
    /\ UNCHANGED <<nextId, subscriptions, ws, received>>

\* lines 205-234: db.execute(update ... where id == ...), db.commit(), then
\* the response built from the request.  The UPDATE writes the rows that have
\* the id when it takes effect; ok is FALSE when execute or commit raises.
update_commit(r, ok) ==
    /\ req[r].kind = "update" /\ req[r].pc = "selected"
    /\ IF ok
       THEN /\ table' = {IF x.id = req[r].id THEN Row(req[r].id, req[r].data) ELSE x : x \in table}
            /\ modified' = modified \cup {req[r].id}
            /\ req' = [req EXCEPT ![r].pc = "done", ![r].status = 200,
                                  ![r].txn = Row(req[r].id, req[r].data),
                                  ![r].result = Row(req[r].id, req[r].data)]
       ELSE /\ req' = [req EXCEPT ![r] = Respond(r, except_Exception(StorageError))]
            /\ UNCHANGED <<table, modified>>
    /\ UNCHANGED <<nextId, subscriptions, ws, received>>

\* --------------------------------- delete_processed_agent_data (241-259)
\* DELETE /processed_agent_data/<id>, lines 245-250: select, first(), 404
delete_select(r, id, ok) ==
    /\ Arrives(r)
    /\ LET found == select(table, id)
           start == [IdleReq EXCEPT !.kind = "delete", !.id = id, !.pc = "done"]
       IN req' = [req EXCEPT ![r] =
            IF ~ok
            THEN [start EXCEPT !.status = except_Exception(StorageError).status,
                               !.detail = except_Exception(StorageError).detail]
            ELSE IF found = {}
            THEN [start EXCEPT !.status = except_Exception(NotFound404).status,
                               !.detail = except_Exception(NotFound404).detail]
            ELSE [start EXCEPT !.pc = "selected", !.existing = CHOOSE x \in found : TRUE]]
    /\ UNCHANGED <<table, nextId, subscriptions, ws, received, modified>>

\* lines 253-257: db.execute(delete ... where id == ...), db.commit(), then
\* the row read at line 246 is returned.  The DELETE removes the rows that
\* have the id when it takes effect; ok is FALSE when execute or commit raises.
delete_commit(r, ok) ==
    /\ req[r].kind = "delete" /\ req[r].pc = "selected"
    /\ IF ok
       THEN /\ table' = table \ select(table, req[r].id)
            /\ modified' = modified \cup {req[r].id}
            /\ req' = [req EXCEPT ![r].pc = "done", ![r].status = 200,
                                  ![r].result = req[r].existing]
       ELSE /\ req' = [req EXCEPT ![r] = Respond(r, except_Exception(StorageError))]
            /\ UNCHANGED <<table, modified>>
    /\ UNCHANGED <<nextId, subscriptions, ws, received>>

\* ------------------------------------------------------------ the system
Next ==
    \/ \E c \in Conns, u \in UserIds : websocket_endpoint(c, u)
    \/ \E r \in Reqs, b \in Submissions : create_receive(r, b)
    \/ \E r \in Reqs, ok \in BOOLEAN : create_insert(r, ok)
    \/ \E r \in Reqs, ok \in BOOLEAN : create_commit(r, ok)
    \/ \E r \in Reqs : create_publish(r)
    \/ \E r \in Reqs, id \in Ids, ok \in BOOLEAN : read_processed_agent_data(r, id, ok)
    \/ \E r \in Reqs, id \in Ids, b \in Submissions, ok \in BOOLEAN : update_select(r, id, b, ok)
    \/ \E r \in Reqs, ok \in BOOLEAN : update_commit(r, ok)
    \/ \E r \in Reqs, id \in Ids, ok \in BOOLEAN : delete_select(r, id, ok)
    \/ \E r \in Reqs, ok \in BOOLEAN : delete_commit(r, ok)

Spec == Init /\ [][Next]_vars

\* create_processed_agent_data is a coroutine on the event loop.  After the
\* commit of line 168 it runs lines 169-186 without giving up the loop unless
\* line 104 awaits a write, and the loop resumes a coroutine whose await has
\* completed: a request that stands after its commit takes its publish step.
FairSpec == Spec /\ \A r \in Reqs : WF_vars(create_publish(r))

\* ------------------------------------------------------------ properties
Creates == {r \in Reqs : req[r].kind = "create"}
Finished(r) == req[r].pc = "done"
Acknowledged(r) == req[r].status = 200 /\ req[r].detail = "Data inserted successfully"

C3_IngestAllOrNothing ==
    \A r \in Creates : Finished(r) =>
        \/ /\ Acknowledged(r)
           /\ req[r].hasRow
           /\ req[r].row.id \notin modified => req[r].row \in table
        \/ /\ req[r].status \in {422, 500}
           /\ ~req[r].hasRow
           /\ select(table, req[r].txn.id) = {}

\* an ingest that got an error and left no row, next to an acknowledged
\* ingest whose record is stored
C3_Witness ==
    /\ \E r \in Creates :
          Finished(r) /\ req[r].status \in {422, 500} /\ ~req[r].hasRow
    /\ \E r \in Creates : Finished(r) /\ Acknowledged(r) /\ req[r].row \in table

C6_KeyedDelivery ==
    \A r \in Creates : Finished(r) /\ Acknowledged(r) =>
        \A c \in Conns :
            LET writes == {i \in 1..Len(req[r].sends) : req[r].sends[i][1] = c}
            IN /\ c \in req[r].expected =>
                    /\ Cardinality(writes) = 1
                    /\ \A i \in writes : req[r].sends[i][2] = data_to_send(req[r].data)
               /\ (ws[c].pc # "idle" /\ ws[c].user_id # req[r].data.user_id) => writes = {}

\* C8: the pipeline order of an ingest request.  Line 185 (publish) is reached,
\* and a message is written, only after the request's insert has committed; a
\* request that failed validation executed no insert and did not publish; a
\* request whose insert or commit failed did not publish and got a 500.
C8_PipelineOrder ==
    \A r \in Creates :
        /\ (req[r].published \/ req[r].sends # <<>> \/ req[r].pc = "committed")
              => (req[r].hasRow /\ (req[r].row \in table \/ req[r].row.id \in modified))
        /\ req[r].hasRow => (req[r].txn = req[r].row /\ req[r].status # 422)
        /\ req[r].status = 422 =>
              (req[r].txn.id = 0 /\ ~req[r].hasRow /\ ~req[r].published /\ req[r].sends = <<>>)
        /\ (Finished(r) /\ req[r].status # 422 /\ ~req[r].hasRow) =>
              (req[r].status = 500 /\ ~req[r].published /\ req[r].sends = <<>>)

\* one request's commit failed after its insert and it got a 500 without
\* publishing; another published after its commit
C8_Witness ==
    /\ \E r \in Creates :
          Finished(r) /\ req[r].status = 500 /\ req[r].txn.id # 0 /\ ~req[r].published
    /\ \E r \in Creates : Finished(r) /\ req[r].published /\ req[r].hasRow

\* the data columns of processed_agent_data
DataFields ==
    {"road_state", "user_id", "x", "y", "z", "latitude", "longitude", "timestamp"}

\* the state part of C9
C9_Stored ==
    \A r \in Creates : Finished(r) /\ Acknowledged(r) =>
        /\ req[r].hasRow
        /\ req[r].row.id \in Ids
        /\ \A f \in DataFields : req[r].row[f] = req[r].data[f]
        /\ \A q \in Creates \ {r} : req[q].hasRow => req[q].row.id # req[r].row.id
        /\ req[r].row.id \notin modified => select(table, req[r].row.id) = {req[r].row}

\* the step part of C9: the commit of an ingest adds its one row under an id
\* no stored row has, no other step of an ingest changes the table, and a
\* get-by-id that the database answers returns the row an ingest committed
\* under that id, as long as no update or delete has addressed the id
C9_Step ==
    \A r \in Reqs :
        /\ (req'[r].kind = "create" /\ req'[r] # req[r]) =>
              IF req'[r].hasRow /\ ~req[r].hasRow
              THEN /\ select(table, req'[r].row.id) = {}
                   /\ table' = table \cup {req'[r].row}
                   /\ Cardinality(table') = Cardinality(table) + 1
              ELSE table' = table
        /\ (Arrives(r) /\ req'[r].kind = "read" /\ req'[r].detail # "StorageError") =>
              \A q \in Creates :
                  (req[q].hasRow /\ req[q].row.id = req'[r].id /\ req'[r].id \notin modified)
                      => (req'[r].status = 200 /\ req'[r].result = req[q].row)

\* C9: each acknowledged ingest has created exactly one row, under a fresh id
\* no other ingest's row has, whose eight data fields equal the validated
\* submission's; until an update or delete addresses that id the row is the
\* only stored row of that id and a get-by-id of the id returns it.
C9_OneStoredRecord == []C9_Stored /\ [][C9_Step]_vars

\* an acknowledged ingest has added its row to a table that held another, and
\* a get-by-id of its id has returned that row
C9_Witness ==
    \E r \in Creates, g \in Reqs :
        /\ Finished(r) /\ Acknowledged(r)
        /\ \E x \in table : x.id # req[r].row.id
        /\ req[g].kind = "read" /\ req[g].status = 200 /\ req[g].id = req[r].row.id
        /\ req[g].id \notin modified
        /\ req[g].result = req[r].row /\ req[r].row \in table

\* C10 as stated: a get-by-id, update-by-id or delete-by-id of an id with no
\* stored row, whose body is valid and whose select the database answers, is
\* answered with the not-found status 404.
C10_NotFoundIs404 ==
    [][\A r \in Reqs :
          (/\ Arrives(r)
           /\ req'[r].kind \in {"read", "update", "delete"}
           /\ select(table, req'[r].id) = {}
           /\ req'[r].detail \notin {"StorageError", "ValidationError"})
              => req'[r].status = 404]_vars

\* C11: an update-by-id or delete-by-id of an id that has no stored row ends
\* in that one step with an error and changes nothing: the table (its rows and
\* their fields), the id sequence, the registry, the connections and the
\* messages written to them are the same after it as before.
C11_NotFoundChangesNothing ==
    [][\A r \in Reqs :
          (/\ Arrives(r)
           /\ req'[r].kind \in {"update", "delete"}
           /\ select(table, req'[r].id) = {})
              => /\ table' = table
                 /\ nextId' = nextId
                 /\ subscriptions' = subscriptions
                 /\ ws' = ws
                 /\ received' = received
                 /\ req'[r].pc = "done" /\ req'[r].status # 200]_vars

\* an update-by-id and a delete-by-id have both ended on the not-found path
\* while the table holds a row
C11_Witness ==
    /\ table # {}
    /\ \E r \in Reqs, q \in Reqs :
          /\ req[r].kind = "update" /\ req[q].kind = "delete"
          /\ req[r].detail = "404: Data not found" /\ req[q].detail = "404: Data not found"
          /\ select(table, req[r].id) = {} /\ select(table, req[q].id) = {}

\* The listener set the registry holds for user_id, as line 102-103 read it:
\* empty when user_id is not in the registry
listeners(s, user_id) ==
    IF Contains(s, user_id) THEN GetItem(s, user_id).value ELSE {}

\* C12 as stated: whatever the interleaving of connection handlers and
\* publishes, the listener set of every user_id holds exactly the connections
\* that were opened on /ws/<user_id> and have not disconnected.
C12_RegistryConsistent ==
    \A u \in UserIds : listeners(subscriptions, u) = Subscribers(u)

C16_NoMix ==
    \A x \in table : \E b \in ValidBodies : x = Row(x.id, validate(b).value)

\* the step part of C16: the step in which an update of an id that has a row
\* takes effect and succeeds
C16_Step ==
    \A r \in Reqs :
        (/\ req[r].kind = "update" /\ req[r].pc = "selected"
         /\ req'[r].pc = "done" /\ req'[r].status = 200
         /\ select(table, req[r].id) # {})
            => /\ select(table', req[r].id) = {req'[r].result}
               /\ req'[r].result.id = req[r].id
               /\ \A f \in DataFields : req'[r].result[f] = req[r].data[f]
               /\ {x \in table' : x.id # req[r].id} = {x \in table : x.id # req[r].id}

\* C16: an update-by-id of an id that has a row replaces, in the one step in
\* which it takes effect, all eight data fields by the submitted values, keeps
\* the id, leaves every other row as it was and returns the row then stored
\* under the id; no stored row ever mixes the fields of two bodies.
C16_UpdateReplacesWhole ==
    []C16_NoMix /\ [][C16_Step]_vars

\* an update has replaced a row whose eight fields all differed from the
\* submitted ones, the row it returned is stored, and another row is stored
C16_Witness ==
    \E r \in Reqs :
        /\ req[r].kind = "update" /\ Finished(r) /\ req[r].status = 200
        /\ \A f \in DataFields : req[r].existing[f] # req[r].result[f]
        /\ select(table, req[r].id) = {req[r].result}
        /\ \E x \in table : x.id # req[r].id

\* C17 as stated: of the delete-by-id requests for one id, at most one gets
\* the success response with the deleted row; no stored row is reported as
\* deleted by two requests.
C17_OneDeleteSucceeds ==
    \A r \in Reqs, q \in Reqs :
        (/\ r # q
         /\ req[r].kind = "delete" /\ Finished(r) /\ req[r].status = 200
         /\ req[q].kind = "delete" /\ Finished(q) /\ req[q].status = 200)
            => req[r].result # req[q].result

\* C18 as stated: the step in which an update-by-id gets its success response
\* leaves a row with that id and the submitted fields stored.
C18_UpdateSuccessHasRow ==
    [][\A r \in Reqs :
          (/\ req[r].kind = "update" /\ req[r].pc = "selected"
           /\ req'[r].pc = "done" /\ req'[r].status = 200)
              => Row(req[r].id, req[r].data) \in table']_vars

====
